---- MODULE Spec2Model ----
(***************************************************************************)
(* Magic 8-Ball answer service: src/db_handler.py (DbHandler, the          *)
(* persistence gateway over one shared sqlite3 connection) and src/app.py  *)
(* (the Flask request handlers).                                           *)
(*                                                                         *)
(* Text is a sequence of symbols.  The symbol ";" is the delimiter the     *)
(* gateway joins and splits phrase lists on; every other symbol stands for *)
(* a delimiter-free piece of text.  A nullable value is <<>> (NULL / None) *)
(* or the one-element tuple <<v>>.                                         *)
(*                                                                         *)
(* Every handler is a little program of store statements (execute,         *)
(* commit, rollback).  Step runs one statement of a request, Run runs a    *)
(* request to completion.  Spec serves requests one at a time (Run);       *)
(* SpecConc interleaves the statements of two requests (Step).             *)
(*                                                                         *)
(* procs[t] holds the request thread t serves: its position and locals     *)
(* while it runs, its response once it is done.  before is a history       *)
(* variable of Spec: the store as the request served last found it.        *)
(***************************************************************************)
EXTENDS Integers, Sequences, FiniteSets, TLC

VARIABLES db, committed, procs, before

vars == <<db, committed, procs, before>>

(***************************************************************************)
(* Bounds of the model.                                                    *)
(***************************************************************************)
\* longest text (in symbols) a Ball column may be given by a PUT
MaxLen == 7
\* largest Ball._id the store hands out
MaxBallId == 2

\* every statement of the gateway selects by one email or by the row ids it
\* read for that email, so one account shows each handler's whole effect
Emails == {"e1"}
Threads == {1, 2}


(***************************************************************************)
(* Values                                                                  *)
(***************************************************************************)
NULL == <<>>

Some(v) == <<v>>

Delim == ";"

Columns == <<"ResponseYes", "ResponseNo", "ResponseUnknown">>

Keys == <<"Yes", "No", "Unknown">>

\* the routes /<email>/yes, /<email>/no, /<email>/unknown
Paths == <<"yes", "no", "unknown">>

\* the column the handler of a category route passes to the gateway
PathColumn(path) == Columns[CHOOSE i \in 1..3 : Paths[i] = path]

ColumnSet == {Columns[i] : i \in 1..3}

ColumnIndex(column) == CHOOSE i \in 1..3 : Columns[i] = column

\* str.removeprefix("Response") on a column name
RemovePrefix(column) == Keys[ColumnIndex(column)]

\* "Response" + key
AddPrefix(key) == Columns[CHOOSE i \in 1..3 : Keys[i] = key]

DefaultYes == <<"Yes, definitely.", Delim, "It is decidedly so.", Delim, "You may rely on it.">>

DefaultNo == <<"Signs point to no.", Delim, "Don't count on it.", Delim, "Definitely not.">>

DefaultUnknown == <<"Maybe?", Delim, "Try again.", Delim, "Ask again later.">>

\* the row __create_ball inserts
defaults(add_defaults) ==
    IF add_defaults
    THEN [ResponseYes |-> Some(DefaultYes), ResponseNo |-> Some(DefaultNo),
          ResponseUnknown |-> Some(DefaultUnknown)]
    ELSE [ResponseYes |-> NULL, ResponseNo |-> NULL, ResponseUnknown |-> NULL]

(***************************************************************************)
(* str.split(";") and ";".join(list)                                       *)
(***************************************************************************)
RECURSIVE split(_)
split(s) ==
    IF \A i \in 1..Len(s) : s[i] # Delim
    THEN <<s>>
    ELSE LET i == CHOOSE j \in 1..Len(s) :
                      s[j] = Delim /\ \A k \in 1..(j - 1) : s[k] # Delim
         IN  <<SubSeq(s, 1, i - 1)>> \o split(SubSeq(s, i + 1, Len(s)))

RECURSIVE join(_)
join(list) ==
    IF list = <<>> THEN <<>>
    ELSE IF Len(list) = 1 THEN list[1]
    ELSE list[1] \o <<Delim>> \o join(Tail(list))

Contains(list, entry) == \E i \in 1..Len(list) : list[i] = entry

(***************************************************************************)
(* The store: the tables User and Ball and the AUTOINCREMENT counters      *)
(* (sqlite_sequence, which is transactional like any table).  db is what   *)
(* the shared connection sees, committed is what a rollback restores.      *)
(***************************************************************************)
EmptyStore ==
    [User |-> <<>>, Ball |-> <<>>, seq |-> [User |-> 0, Ball |-> 0]]

\* SELECT _id, Ball_Id FROM User WHERE (email = "..."), in rowid order
get_user(T, email) ==
    LET ids == {i \in DOMAIN T.User : T.User[i].Email = email}
        RECURSIVE Sorted(_)
        Sorted(S) == IF S = {} THEN <<>>
                     ELSE LET m == CHOOSE x \in S : \A y \in S : x <= y
                          IN  <<[_id |-> m, Ball_Id |-> T.User[m].Ball_Id]>> \o Sorted(S \ {m})
    IN  Sorted(ids)

\* the column declared without UNIQUE
ViolatesUnique_missing(T, email) == FALSE

\* Email TEXT NOT NULL UNIQUE
ViolatesUnique(T, email) == \E i \in DOMAIN T.User : T.User[i].Email = email

\* INSERT INTO User (Email) VALUES ("...")
InsertUser(T, email) ==
    LET id == T.seq.User + 1
    IN  [T EXCEPT !.User = [i \in DOMAIN T.User \cup {id} |->
                               IF i = id THEN [Email |-> email, Ball_Id |-> NULL]
                               ELSE T.User[i]],
                  !.seq.User = id]

\* INSERT INTO Ball (ResponseYes, ResponseNo, ResponseUnknown) VALUES (...)
InsertBall(T, row) ==
    LET id == T.seq.Ball + 1
    IN  [T EXCEPT !.Ball = [i \in DOMAIN T.Ball \cup {id} |->
                               IF i = id THEN row ELSE T.Ball[i]],
                  !.seq.Ball = id]

\* UPDATE User SET Ball_id = ... WHERE _id = row_id
UpdateUser(T, row_id, ball_id) ==
    IF row_id \in DOMAIN T.User
    THEN [T EXCEPT !.User[row_id].Ball_Id = ball_id]
    ELSE T

\* UPDATE Ball SET column = value, ... WHERE _id = row_id
UpdateBall(T, row_id, properties) ==
    IF row_id \in DOMAIN T.Ball
    THEN LET Set(c) == IF c \in DOMAIN properties THEN properties[c] ELSE T.Ball[row_id][c]
         IN  [T EXCEPT !.Ball[row_id] =
                 [ResponseYes |-> Set("ResponseYes"), ResponseNo |-> Set("ResponseNo"),
                  ResponseUnknown |-> Set("ResponseUnknown")]]
    ELSE T

\* DELETE FROM Ball WHERE (_id = "...")
DeleteBall(T, row_id) ==
    [T EXCEPT !.Ball = [i \in DOMAIN T.Ball \ {row_id} |-> T.Ball[i]]]

(***************************************************************************)
(* Requests and the per-request state (the handler's position and locals,  *)
(* then its response).                                                     *)
(***************************************************************************)
NoBody == [json |-> FALSE, obj |-> <<>>]

Idle ==
    [pc |-> "idle",
     method |-> "", path |-> "", email |-> "", body |-> NoBody, k |-> 0,
     properties |-> <<>>, single |-> FALSE, messages |-> <<>>,
     user_id |-> NULL, ball_id |-> NULL, response |-> <<>>, new_data |-> <<>>,
     status |-> 0, msg |-> "", lists |-> <<>>, added |-> <<>>, answer |-> NULL,
     ret |-> ""]

Conn(T, C, p) == [db |-> T, committed |-> C, proc |-> p]

\* the handler returns (payload, status); its locals are gone
Return(p, status, msg, ret) ==
    [p EXCEPT !.pc = "done", !.status = status, !.msg = msg, !.ret = ret,
              !.properties = <<>>, !.single = FALSE, !.messages = <<>>,
              !.user_id = NULL, !.ball_id = NULL, !.response = <<>>, !.new_data = <<>>]

\* an exception no handler catches: the framework answers 500
Raise(p, error) == Return(p, 500, error, "raise")

(***************************************************************************)
(* app.py: parsing of the PUT body                                         *)
(***************************************************************************)
\* the loop over ["Yes", "No", "Unknown"] building additions, in that order
additions(object) ==
    LET RECURSIVE Build(_)
        Build(i) ==
            IF i > 3 THEN <<>>
            ELSE IF Keys[i] \notin DOMAIN object THEN Build(i + 1)
            ELSE <<[column |-> AddPrefix(Keys[i]), array |-> object[Keys[i]].val]>>
                 \o Build(i + 1)
    IN  Build(1)

\* an unparsable body taken for an empty object
add_phrases_lenient(p) ==
    [p EXCEPT !.pc = "get_ball_select",
              !.messages = IF p.body.json THEN additions(p.body.obj) ELSE <<>>]

add_phrases(p) ==
    IF ~p.body.json
    THEN Return(p, 404, "Parsing Error", "")
    ELSE [p EXCEPT !.pc = "get_ball_select", !.messages = additions(p.body.obj)]

(***************************************************************************)
(* app.py: the routing table.  dispatch runs the handler up to its first   *)
(* store statement.                                                        *)
(***************************************************************************)
dispatch(req) ==
    LET p == [Idle EXCEPT !.method = req.method, !.path = req.path,
                          !.email = req.email, !.body = req.body, !.k = req.k]
    IN  CASE req.method = "POST" ->
                 [p EXCEPT !.pc = "add_user_insert"]
          [] req.method = "GET" /\ req.path = "" ->
                 [p EXCEPT !.pc = "get_ball_select", !.single = TRUE,
                           !.properties = <<Columns[req.k + 1]>>]
          [] req.method = "GET" /\ req.path = "all" ->
                 [p EXCEPT !.pc = "get_ball_select", !.properties = Columns]
          [] req.method = "GET" ->
                 [p EXCEPT !.pc = "get_ball_select", !.properties = <<PathColumn(req.path)>>]
          [] req.method = "PUT" ->
                 add_phrases(p)
          [] req.method = "DELETE" /\ req.path = "all" ->
                 [p EXCEPT !.pc = "delete_ball_select"]
          [] req.method = "DELETE" ->
                 [p EXCEPT !.pc = "delete_answers_select"]

(***************************************************************************)
(* db_handler.py: add_user -> __insert                                     *)
(***************************************************************************)
add_user_insert(T, C, p) ==
    IF ViolatesUnique(T, p.email)
    THEN Conn(T, C, [p EXCEPT !.pc = "insert_rollback"])
    ELSE Conn(InsertUser(T, p.email), C, [p EXCEPT !.pc = "insert_commit"])

insert_commit(T, C, p) ==
    Conn(T, T, Return(p, 200, "Account created", "id"))

insert_rollback(T, C, p) ==
    Conn(C, C, Return(p, 404, "Could not create account", "None"))

(***************************************************************************)
(* db_handler.py: get_ball and __create_ball.  GET handlers call           *)
(* get_ball(email) (defaults), add_answers calls get_ball(email, False).   *)
(***************************************************************************)
add_defaults_to_new(p) == p.method = "GET"

AfterGetBall(p) ==
    IF p.method = "GET" THEN "get_answers_select" ELSE "add_answers_select"

NoBallMessage(p) ==
    IF p.method = "GET" THEN "Account does not exist for this email"
    ELSE "Something went wrong with adding the answers"

\* an unknown email given an account on the fly
get_ball_select_autocreate(T, C, p) ==
    LET users == get_user(T, p.email)
    IN  IF Len(users) = 0
        THEN Conn(InsertUser(T, p.email), C, p)
        ELSE IF users[1].Ball_Id = NULL
        THEN Conn(T, C, [p EXCEPT !.pc = "create_ball_insert",
                                  !.user_id = Some(users[1]._id)])
        ELSE Conn(T, C, [p EXCEPT !.pc = AfterGetBall(p),
                                  !.user_id = Some(users[1]._id),
                                  !.ball_id = users[1].Ball_Id])

get_ball_select(T, C, p) ==
    LET users == get_user(T, p.email)
    IN  IF Len(users) = 0
        THEN Conn(T, C, Return(p, 404, NoBallMessage(p), "None"))
        ELSE IF users[1].Ball_Id = NULL
        THEN Conn(T, C, [p EXCEPT !.pc = "create_ball_insert",
                                  !.user_id = Some(users[1]._id)])
        ELSE Conn(T, C, [p EXCEPT !.pc = AfterGetBall(p),
                                  !.user_id = Some(users[1]._id),
                                  !.ball_id = users[1].Ball_Id])

create_ball_insert(T, C, p) ==
    LET T2 == InsertBall(T, defaults(add_defaults_to_new(p)))
    IN  Conn(T2, C, [p EXCEPT !.pc = "create_ball_update", !.ball_id = Some(T2.seq.Ball)])

create_ball_update(T, C, p) ==
    Conn(UpdateUser(T, p.user_id[1], p.ball_id), C, [p EXCEPT !.pc = "create_ball_commit"])

create_ball_commit(T, C, p) ==
    Conn(T, T, [p EXCEPT !.pc = AfterGetBall(p)])

(***************************************************************************)
(* db_handler.py: get_answers, and app.py: get_ball_response               *)
(***************************************************************************)
\* one entry per requested column: None, or the column split on ";"
get_answers(row, properties) ==
    [i \in 1..Len(properties) |->
        IF row[properties[i]] = NULL THEN NULL ELSE Some(split(row[properties[i]][1]))]

get_ball_response(p, data, rnd) ==
    IF p.single
    THEN LET array == data[1]
             answer == IF array = NULL
                       THEN <<RemovePrefix(p.properties[1])>>
                       ELSE array[1][rnd + 1]
         IN  [Return(p, 200, "", "list") EXCEPT !.answer = Some(answer)]
    ELSE LET send == [key \in {RemovePrefix(p.properties[i]) : i \in 1..Len(p.properties)} |->
                         LET array == data[CHOOSE i \in 1..Len(p.properties) :
                                               RemovePrefix(p.properties[i]) = key]
                         IN  IF array = NULL THEN <<>> ELSE array[1]]
         IN  [Return(p, 200, "", "list") EXCEPT !.lists = send]

get_answers_select(T, C, p, rnd) ==
    IF p.ball_id[1] \notin DOMAIN T.Ball
    THEN Conn(T, C, Raise(p, "IndexError"))
    ELSE Conn(T, C, get_ball_response(p, get_answers(T.Ball[p.ball_id[1]], p.properties), rnd))

(***************************************************************************)
(* db_handler.py: add_answers                                              *)
(***************************************************************************)
\* the inner loop: skip an entry already in existing_answers, else record
\* it in column_response and append it to existing_answers
RECURSIVE AppendNew(_, _, _)
AppendNew(existing_answers, array, column_response) ==
    IF array = <<>>
    THEN [existing |-> existing_answers, response |-> column_response]
    ELSE IF Contains(existing_answers, Head(array))
    THEN AppendNew(existing_answers, Tail(array), column_response)
    ELSE AppendNew(Append(existing_answers, Head(array)), Tail(array),
                   column_response \cup {Head(array)})

\* existing_answers_map[index] for the index-th entry of messages
ExistingAnswers(existing_answers_map, messages, index) ==
    existing_answers_map[index]

add_answers_merge(row, messages) ==
    LET existing_answers_map ==
            [i \in 1..3 |-> IF row[Columns[i]] = NULL THEN <<>> ELSE split(row[Columns[i]][1])]
        Merged(index) ==
            AppendNew(ExistingAnswers(existing_answers_map, messages, index),
                      messages[index].array, {})
        Index(column) == CHOOSE i \in 1..Len(messages) : messages[i].column = column
        cols == {messages[i].column : i \in 1..Len(messages)}
    IN  [response |-> [key \in {RemovePrefix(c) : c \in cols} |->
                          Merged(Index(AddPrefix(key))).response],
         new_data |-> [c \in cols |-> Some(join(Merged(Index(c)).existing))]]

add_answers_select(T, C, p) ==
    IF p.ball_id[1] \notin DOMAIN T.Ball
    THEN Conn(T, C, Raise(p, "IndexError"))
    ELSE LET m == add_answers_merge(T.Ball[p.ball_id[1]], p.messages)
         IN  Conn(T, C, [p EXCEPT !.pc = "add_answers_update",
                                  !.response = m.response, !.new_data = m.new_data])

\* "UPDATE Ball SET " + "" + " WHERE _id = ..." is no SQL statement
add_answers_update(T, C, p) ==
    IF DOMAIN p.new_data = {}
    THEN Conn(T, C, Raise(p, "OperationalError"))
    ELSE Conn(UpdateBall(T, p.ball_id[1], p.new_data), C,
              [p EXCEPT !.pc = "add_answers_commit"])

add_answers_commit(T, C, p) ==
    Conn(T, T, [Return(p, 200, "", "dict") EXCEPT !.added = p.response])

(***************************************************************************)
(* db_handler.py: delete_answers, behind DELETE /<email>/yes|no|unknown    *)
(***************************************************************************)
DeletedMessage(path) ==
    CASE path = "yes" -> "\"Yes\" answers deleted"
      [] path = "no" -> "\"No\" answers deleted"
      [] path = "unknown" -> "\"Unknown\" answers deleted"

\* a missing ball reported as False
delete_answers_select_false(T, C, p) ==
    LET users == get_user(T, p.email)
    IN  IF Len(users) = 0
        THEN Conn(T, C, Return(p, 404, "No such account", "None"))
        ELSE IF users[1].Ball_Id = NULL
        THEN Conn(T, C, Return(p, 404, "No such account", "False"))
        ELSE Conn(T, C, [p EXCEPT !.pc = "delete_answers_update",
                                  !.ball_id = users[1].Ball_Id])

delete_answers_select(T, C, p) ==
    LET users == get_user(T, p.email)
    IN  IF Len(users) = 0
        THEN Conn(T, C, Return(p, 404, "No such account", "None"))
        ELSE IF users[1].Ball_Id = NULL
        THEN Conn(T, C, Return(p, 404, "No such account", "None"))
        ELSE Conn(T, C, [p EXCEPT !.pc = "delete_answers_update",
                                  !.ball_id = users[1].Ball_Id])

\* the category set to the empty text instead of NULL
delete_answers_update_empty(T, C, p) ==
    LET category == PathColumn(p.path)
        conditions == [c \in {category} |-> Some(<<>>)]
    IN  Conn(UpdateBall(T, p.ball_id[1], conditions), C,
             [p EXCEPT !.pc = "delete_answers_commit"])

delete_answers_update(T, C, p) ==
    LET category == PathColumn(p.path)
        conditions == [c \in {category} |-> NULL]
    IN  Conn(UpdateBall(T, p.ball_id[1], conditions), C,
             [p EXCEPT !.pc = "delete_answers_commit"])

delete_answers_commit(T, C, p) ==
    Conn(T, T, Return(p, 200, DeletedMessage(p.path), "True"))

(***************************************************************************)
(* db_handler.py: delete_ball, behind DELETE /<email>/all                  *)
(***************************************************************************)
delete_ball_select(T, C, p) ==
    LET users == get_user(T, p.email)
    IN  IF Len(users) = 0
        THEN Conn(T, C, Return(p, 404, "No such account", "None"))
        ELSE IF users[1].Ball_Id = NULL
        THEN Conn(T, C, Return(p, 200, "Ball deleted", "True"))
        ELSE Conn(T, C, [p EXCEPT !.pc = "delete_ball_delete",
                                  !.user_id = Some(users[1]._id),
                                  !.ball_id = users[1].Ball_Id])

\* the Ball row left in place
delete_ball_delete_skipped(T, C, p) ==
    Conn(T, C, [p EXCEPT !.pc = "delete_ball_update"])

delete_ball_delete(T, C, p) ==
    Conn(DeleteBall(T, p.ball_id[1]), C, [p EXCEPT !.pc = "delete_ball_update"])

delete_ball_update(T, C, p) ==
    Conn(UpdateUser(T, p.user_id[1], NULL), C, [p EXCEPT !.pc = "delete_ball_commit"])

delete_ball_commit(T, C, p) ==
    Conn(T, T, Return(p, 200, "Ball deleted", "True"))

(***************************************************************************)
(* One store statement of a request, and a request run to completion.      *)
(* rnd is the value random.randrange(0, length) gives for the phrase of a  *)
(* single answer GET.                                                      *)
(***************************************************************************)
Step(T, C, p, rnd) ==
    CASE p.pc = "add_user_insert" -> add_user_insert(T, C, p)
      [] p.pc = "insert_commit" -> insert_commit(T, C, p)
      [] p.pc = "insert_rollback" -> insert_rollback(T, C, p)
      [] p.pc = "get_ball_select" -> get_ball_select(T, C, p)
      [] p.pc = "create_ball_insert" -> create_ball_insert(T, C, p)
      [] p.pc = "create_ball_update" -> create_ball_update(T, C, p)
      [] p.pc = "create_ball_commit" -> create_ball_commit(T, C, p)
      [] p.pc = "get_answers_select" -> get_answers_select(T, C, p, rnd)
      [] p.pc = "add_answers_select" -> add_answers_select(T, C, p)
      [] p.pc = "add_answers_update" -> add_answers_update(T, C, p)
      [] p.pc = "add_answers_commit" -> add_answers_commit(T, C, p)
      [] p.pc = "delete_answers_select" -> delete_answers_select(T, C, p)
      [] p.pc = "delete_answers_update" -> delete_answers_update(T, C, p)
      [] p.pc = "delete_answers_commit" -> delete_answers_commit(T, C, p)
      [] p.pc = "delete_ball_select" -> delete_ball_select(T, C, p)
      [] p.pc = "delete_ball_delete" -> delete_ball_delete(T, C, p)
      [] p.pc = "delete_ball_update" -> delete_ball_update(T, C, p)
      [] p.pc = "delete_ball_commit" -> delete_ball_commit(T, C, p)

RECURSIVE Run(_, _)
Run(c, rnd) ==
    IF c.proc.pc = "done" THEN c
    ELSE Run(Step(c.db, c.committed, c.proc, rnd), rnd)

(***************************************************************************)
(* The requests clients send.                                              *)
(***************************************************************************)
Request(method, path, email, body, k) ==
    [method |-> method, path |-> path, email |-> email, body |-> body, k |-> k]

PhraseA == <<"a">>

PhraseB == <<"b">>

\* a phrase holding the delimiter
PhraseAB == <<"a", Delim, "b">>

\* a JSON string, and a JSON list of strings (the handler turns the string
\* into a one-element list)
Str(s) == [kind |-> "str", val |-> <<s>>]

List(l) == [kind |-> "list", val |-> l]

BodyValues == {Str(PhraseA), List(<<PhraseAB, PhraseAB>>)}

KeySet == {Keys[i] : i \in 1..3}

\* JSON objects holding any subset of the keys (one value under all of
\* them), and a body that is no JSON
Bodies ==
    {[json |-> TRUE, obj |-> [key \in K |-> v]] : K \in SUBSET KeySet, v \in BodyValues}
    \cup {NoBody}

\* the stored text stays within the bounds of the model
WithinBounds(T) ==
    /\ T.seq.Ball <= MaxBallId
    /\ \A i \in DOMAIN T.Ball : \A c \in ColumnSet :
           T.Ball[i][c] # NULL => Len(T.Ball[i][c][1]) <= MaxLen

Finished(p) == p.pc \in {"idle", "done"}

\* the request Spec served last (Spec serves on thread 1), with its response
last == procs[1]

\* the statements of a request up to (not including) the one at label
RECURSIVE RunTo(_, _)
RunTo(c, label) ==
    IF c.proc.pc \in {"done", label} THEN c
    ELSE RunTo(Step(c.db, c.committed, c.proc, 0), label)

\* length, the bound of random.randrange(0, length) in get_ball_response
\* (1 where the handler draws nothing)
length(T, p) ==
    IF /\ p.pc = "get_answers_select"
       /\ p.single
       /\ p.ball_id[1] \in DOMAIN T.Ball
       /\ T.Ball[p.ball_id[1]][p.properties[1]] # NULL
    THEN Len(split(T.Ball[p.ball_id[1]][p.properties[1]][1]))
    ELSE 1

(***************************************************************************)
(* Spec: requests served one at a time, each handler run to completion.    *)
(***************************************************************************)
Init ==
    /\ db = EmptyStore
    /\ committed = EmptyStore
    /\ procs = [t \in Threads |-> Idle]
    /\ before = EmptyStore

Serve(req) ==
    \E s \in {RunTo(Conn(db, committed, dispatch(req)), "get_answers_select")} :
    \E rnd \in 0..(length(s.db, s.proc) - 1) :
    \E r \in {Run(s, rnd)} :
        /\ WithinBounds(r.db)
        /\ db' = r.db
        /\ committed' = r.committed
        /\ procs' = [procs EXCEPT ![1] = r.proc]
        /\ before' = db

PostUser ==
    \E e \in Emails :
        /\ Finished(last)
        /\ Serve(Request("POST", "", e, NoBody, 0))

GetUser ==
    \E e \in Emails, k \in 0..2 :
        /\ Finished(last)
        /\ Serve(Request("GET", "", e, NoBody, k))

GetAll ==
    \E e \in Emails :
        /\ Finished(last)
        /\ Serve(Request("GET", "all", e, NoBody, 0))

GetCategory ==
    \E e \in Emails, i \in 1..3 :
        /\ Finished(last)
        /\ Serve(Request("GET", Paths[i], e, NoBody, 0))

PutAll ==
    \E e \in Emails, b \in Bodies :
        /\ Finished(last)
        /\ Serve(Request("PUT", "all", e, b, 0))

DeleteAll ==
    \E e \in Emails :
        /\ Finished(last)
        /\ Serve(Request("DELETE", "all", e, NoBody, 0))

DeleteCategory ==
    \E e \in Emails, i \in 1..3 :
        /\ Finished(last)
        /\ Serve(Request("DELETE", Paths[i], e, NoBody, 0))

Next ==
    \/ PostUser
    \/ GetUser
    \/ GetAll
    \/ GetCategory
    \/ PutAll
    \/ DeleteAll
    \/ DeleteCategory

Spec == Init /\ [][Next]_vars

(***************************************************************************)
(* SpecConc: two requests on the shared connection, interleaved between    *)
(* their store statements.  Each thread serves one request; the store      *)
(* starts in a state requests served before have left it in.               *)
(***************************************************************************)
After(T, req) == Run(Conn(T, T, dispatch(req)), 0).db

StoreAccount == After(EmptyStore, Request("POST", "", "e1", NoBody, 0))

StoreDefaultBall == After(StoreAccount, Request("GET", "all", "e1", NoBody, 0))

StoreEmptyBall ==
    After(StoreAccount,
          Request("PUT", "all", "e1", [json |-> TRUE, obj |-> [key \in {"No"} |-> Str(PhraseB)]], 0))

ConcStores == {EmptyStore, StoreAccount, StoreDefaultBall, StoreEmptyBall}

ConcBodies ==
    {[json |-> TRUE, obj |-> [key \in {"Yes"} |-> Str(PhraseA)]],
     [json |-> TRUE, obj |-> [key \in {"Yes"} |-> Str(PhraseB)]],
     [json |-> TRUE, obj |-> [key \in {"No"} |-> Str(PhraseA)]]}

InitConc ==
    /\ db \in ConcStores
    /\ committed = db
    /\ procs = [t \in Threads |-> Idle]
    /\ before = EmptyStore

Begin(t, req) ==
    /\ procs' = [procs EXCEPT ![t] = dispatch(req)]
    /\ UNCHANGED <<db, committed, before>>

BeginPost(t) ==
    \E e \in Emails :
        /\ procs[t].pc = "idle"
        /\ Begin(t, Request("POST", "", e, NoBody, 0))

BeginGetUser(t) ==
    \E e \in Emails, k \in 0..2 :
        /\ procs[t].pc = "idle"
        /\ Begin(t, Request("GET", "", e, NoBody, k))

BeginGetAll(t) ==
    \E e \in Emails :
        /\ procs[t].pc = "idle"
        /\ Begin(t, Request("GET", "all", e, NoBody, 0))

BeginGetCategory(t) ==
    \E e \in Emails, i \in 1..3 :
        /\ procs[t].pc = "idle"
        /\ Begin(t, Request("GET", Paths[i], e, NoBody, 0))

BeginPutAll(t) ==
    \E e \in Emails, b \in ConcBodies :
        /\ procs[t].pc = "idle"
        /\ Begin(t, Request("PUT", "all", e, b, 0))

BeginDeleteAll(t) ==
    \E e \in Emails :
        /\ procs[t].pc = "idle"
        /\ Begin(t, Request("DELETE", "all", e, NoBody, 0))

BeginDeleteCategory(t) ==
    \E e \in Emails, i \in 1..3 :
        /\ procs[t].pc = "idle"
        /\ Begin(t, Request("DELETE", Paths[i], e, NoBody, 0))

\* thread t executes its next store statement
Statement(t) ==
    /\ ~Finished(procs[t])
    /\ \E rnd \in 0..(length(db, procs[t]) - 1) :
       \E s \in {Step(db, committed, procs[t], rnd)} :
           /\ WithinBounds(s.db)
           /\ db' = s.db
           /\ committed' = s.committed
           /\ procs' = [procs EXCEPT ![t] = s.proc]
           /\ UNCHANGED before

NextConc ==
    \E t \in Threads :
        \/ BeginPost(t)
        \/ BeginGetUser(t)
        \/ BeginGetAll(t)
        \/ BeginGetCategory(t)
        \/ BeginPutAll(t)
        \/ BeginDeleteAll(t)
        \/ BeginDeleteCategory(t)
        \/ Statement(t)

SpecConc == InitConc /\ [][NextConc]_vars

(***************************************************************************)
(* Properties                                                              *)
(***************************************************************************)
IsDone(p) == p.pc = "done"

UserRows(T, email) == {i \in DOMAIN T.User : T.User[i].Email = email}

HasAccount(T, email) == UserRows(T, email) # {}

\* the Ball_Id of the account (NULL without an account)
BallIdOf(T, email) ==
    IF HasAccount(T, email)
    THEN T.User[CHOOSE i \in UserRows(T, email) : TRUE].Ball_Id
    ELSE NULL

HasBall(T, email) == BallIdOf(T, email) # NULL /\ BallIdOf(T, email)[1] \in DOMAIN T.Ball

\* the value of a column of the account's ball (NULL without a ball)
StoredValue(T, email, key) ==
    IF HasBall(T, email) THEN T.Ball[BallIdOf(T, email)[1]][AddPrefix(key)] ELSE NULL

\* the phrases a stored column holds
StoredList(T, email, key) ==
    IF StoredValue(T, email, key) = NULL THEN <<>> ELSE split(StoredValue(T, email, key)[1])

Range(list) == {list[i] : i \in 1..Len(list)}

\* the entries of array that are not in old, each once, in order
RECURSIVE Fresh(_, _)
Fresh(old, array) ==
    IF array = <<>> THEN <<>>
    ELSE IF Contains(old, Head(array)) THEN Fresh(old, Tail(array))
    ELSE <<Head(array)>> \o Fresh(Append(old, Head(array)), Tail(array))

DelimiterFree(list) == \A i \in 1..Len(list) : \A j \in 1..Len(list[i]) : list[i][j] # Delim

DefaultLists ==
    [key \in KeySet |->
        CASE key = "Yes" -> <<<<"Yes, definitely.">>, <<"It is decidedly so.">>,
                              <<"You may rely on it.">>>>
          [] key = "No" -> <<<<"Signs point to no.">>, <<"Don't count on it.">>,
                             <<"Definitely not.">>>>
          [] key = "Unknown" -> <<<<"Maybe?">>, <<"Try again.">>, <<"Ask again later.">>>>]

IsPut(p) == IsDone(p) /\ p.method = "PUT"

IsGet(p) == IsDone(p) /\ p.method = "GET"

IsDeleteAll(p) == IsDone(p) /\ p.method = "DELETE" /\ p.path = "all"

IsDeleteCategory(p) == IsDone(p) /\ p.method = "DELETE" /\ p.path # "all"

IsPost(p) == IsDone(p) /\ p.method = "POST"

\* C1 (as claimed, for supplied phrases that hold no delimiter): after a PUT
\* naming a non-empty set of categories for an existing account, each supplied
\* category's stored list is its previous list followed by the supplied
\* phrases that were not in it, each once; the response holds exactly those
\* phrases per supplied category; a category not supplied keeps its value.
C1_AddAnswersPerCategory ==
    (/\ IsPut(last)
     /\ last.body.json
     /\ DOMAIN last.body.obj # {}
     /\ \A key \in DOMAIN last.body.obj : DelimiterFree(last.body.obj[key].val)
     /\ HasAccount(before, last.email))
    => /\ last.status = 200
       /\ DOMAIN last.added = DOMAIN last.body.obj
       /\ \A key \in KeySet :
            IF key \in DOMAIN last.body.obj
            THEN LET old == StoredList(before, last.email, key)
                     new == Fresh(old, last.body.obj[key].val)
                 IN  /\ StoredList(db, last.email, key) = old \o new
                     /\ last.added[key] = Range(new)
            ELSE StoredValue(db, last.email, key) = StoredValue(before, last.email, key)

NoDuplicatePhrase ==
    \A e \in Emails : \A key \in KeySet :
        LET l == StoredList(db, e, key)
        IN  \A i, j \in 1..Len(l) : l[i] = l[j] => i = j

SamePutAgain ==
    /\ IsPut(last)
    /\ last.status = 200
    /\ DOMAIN last.body.obj # {}
    /\ IsPut(last')
    /\ last'.email = last.email
    /\ last'.body = last.body

\* C2 (as claimed): a PUT sent a second time right after the first returns an
\* empty "added" list for every category of the body and leaves the stored
\* lists as the first PUT left them; and no stored list ever holds the same
\* phrase twice.
C2_PutIdempotent ==
    /\ []NoDuplicatePhrase
    /\ [][SamePutAgain =>
            /\ last'.status = 200
            /\ DOMAIN last'.added = DOMAIN last.body.obj
            /\ \A key \in DOMAIN last'.added : last'.added[key] = {}
            /\ db' = db]_vars

Ownership(T) ==
    /\ \A i \in DOMAIN T.User :
           T.User[i].Ball_Id # NULL => T.User[i].Ball_Id[1] \in DOMAIN T.Ball
    /\ \A b \in DOMAIN T.Ball :
           Cardinality({i \in DOMAIN T.User : T.User[i].Ball_Id = Some(b)}) = 1

\* C3 (as claimed): once all requests have completed, interleaved or not,
\* every non-null ball_id refers to an existing Ball row and every Ball row is
\* referenced by exactly one user.
C3_OwnershipAtRest ==
    (\A t \in Threads : Finished(procs[t])) => Ownership(db) /\ Ownership(committed)

GetWithoutAccount == IsGet(last) /\ ~HasAccount(before, last.email)

\* C4 (as claimed): a GET for an email that has no account creates the User
\* row and a default-seeded ball and answers 200.
C4_GetCreatesAccount ==
    GetWithoutAccount
    => /\ last.status = 200
       /\ HasAccount(db, last.email)
       /\ HasBall(db, last.email)
       /\ \A key \in KeySet : StoredList(db, last.email, key) = DefaultLists[key]

\* C4 (amended): a GET on /{email}, /{email}/all or /{email}/yes|no|unknown
\* for an email that has no account answers 404 "Account does not exist for
\* this email" and creates neither a User row nor a Ball row.
C4_GetWithoutAccountFails ==
    GetWithoutAccount
    => /\ last.status = 404
       /\ last.msg = "Account does not exist for this email"
       /\ db = before
       /\ committed = before

C4_Witness == GetWithoutAccount /\ last.path = "yes"

\* C5, the DELETE: for an existing account DELETE /{email}/all answers 200,
\* keeps the User row and leaves no Ball row of the account
C5_DeleteAll ==
    (IsDeleteAll(last) /\ HasAccount(before, last.email))
    => /\ last.status = 200
       /\ UserRows(db, last.email) = UserRows(before, last.email)
       /\ BallIdOf(db, last.email) = NULL
       /\ BallIdOf(before, last.email) # NULL
              => BallIdOf(before, last.email)[1] \notin DOMAIN db.Ball

\* C5, the GET that follows
C5_ThenGetAll ==
    (/\ IsDeleteAll(last)
     /\ last.status = 200
     /\ IsGet(last')
     /\ last'.path = "all"
     /\ last'.email = last.email)
    => /\ last'.status = 200
       /\ last'.lists = DefaultLists

GetAfterDeleteCategory ==
    /\ IsDeleteCategory(last)
    /\ last.status = 200
    /\ IsGet(last')
    /\ last'.email = last.email

C7_ThreeOutcomes ==
    IsDeleteCategory(last)
    => /\ last.ret = "None" <=> ~HasAccount(before, last.email)
       /\ (HasAccount(before, last.email) /\ ~HasBall(before, last.email))
              => last.ret = "False"
       /\ HasBall(before, last.email)
              => /\ last.ret = "True"
                 /\ StoredValue(db, last.email, RemovePrefix(PathColumn(last.path))) = NULL
       /\ last.ret \in {"None", "False"} => db = before

\* C7 (amended): delete_answers returns None exactly when the email has no
\* account or the account has no ball, and true exactly when the account has
\* a ball, whose category column is then null; it never returns false; in the
\* None case no User or Ball row is created or changed.
C7_TwoOutcomes ==
    IsDeleteCategory(last)
    => /\ last.ret = "None" <=> ~HasBall(before, last.email)
       /\ last.ret = "True" <=> HasBall(before, last.email)
       /\ last.ret = "True"
              => /\ StoredValue(db, last.email, RemovePrefix(PathColumn(last.path))) = NULL
                 /\ last.status = 200
       /\ last.ret = "None" => db = before /\ committed = before /\ last.status = 404

\* a category DELETE for an account that has no ball
C7_Witness ==
    /\ IsDeleteCategory(last)
    /\ HasAccount(before, last.email)
    /\ ~HasBall(before, last.email)

\* C8: the first POST for an email answers 200 "Account created" and adds
\* exactly one User row, with a null ball_id; a later POST for it answers 404
\* "Could not create account" and changes no table; no email ever has two
\* User rows.
C8_PostOnce ==
    /\ \A e \in Emails : Cardinality(UserRows(db, e)) <= 1
    /\ IsPost(last) =>
         IF HasAccount(before, last.email)
         THEN /\ last.status = 404
              /\ last.msg = "Could not create account"
              /\ db = before
              /\ committed = before
         ELSE /\ last.status = 200
              /\ last.msg = "Account created"
              /\ Cardinality(DOMAIN db.User) = Cardinality(DOMAIN before.User) + 1
              /\ \A i \in DOMAIN before.User : db.User[i] = before.User[i]
              /\ \A i \in DOMAIN db.User \ DOMAIN before.User :
                     db.User[i] = [Email |-> last.email, Ball_Id |-> NULL]
              /\ db.Ball = before.Ball

\* a second POST for an account that has meanwhile got a ball
C8_Witness ==
    /\ IsPost(last)
    /\ HasBall(before, last.email)
    /\ last.status = 404

PutNotJson == IsPut(last) /\ ~last.body.json

\* C9: a PUT whose body is no JSON answers 404 "Parsing Error" and changes
\* nothing: no ball is created, no User or Ball row changes.
C9_ParsingError ==
    PutNotJson
    => /\ last.status = 404
       /\ last.msg = "Parsing Error"
       /\ db = before
       /\ committed = before

\* an unparsable PUT for an account that has no ball
C9_Witness ==
    /\ PutNotJson
    /\ HasAccount(before, last.email)
    /\ ~HasBall(before, last.email)

\* C10 (as claimed): every request completes with status 200 or 404.
C10_TwoOutcomes == IsDone(last) => last.status \in {200, 404}

FirstAccess == IsDone(last) /\ HasAccount(before, last.email) /\ ~HasBall(before, last.email)

\* C11 (as claimed): for an account with no ball a first GET creates a ball
\* holding exactly the three default phrases of each category (GET
\* /{email}/yes then returns them under "Yes"); a first PUT creates a ball
\* whose only phrases are the ones supplied, each in the category it was
\* supplied under, every other category empty; an account that has a ball
\* never gets a second one.
C11_LazyBallSeeding ==
    /\ (FirstAccess /\ last.method = "GET")
           => /\ last.status = 200
              /\ HasBall(db, last.email)
              /\ \A key \in KeySet : StoredList(db, last.email, key) = DefaultLists[key]
              /\ last.path = "yes" => last.lists = [key \in {"Yes"} |-> DefaultLists["Yes"]]
    /\ (FirstAccess /\ last.method = "PUT" /\ last.body.json)
           => /\ HasBall(db, last.email)
              /\ \A key \in KeySet :
                     Range(StoredList(db, last.email, key)) =
                         IF key \in DOMAIN last.body.obj
                         THEN Range(last.body.obj[key].val)
                         ELSE {}
    /\ (IsDone(last) /\ HasBall(before, last.email) /\ ~IsDeleteAll(last))
           => /\ BallIdOf(db, last.email) = BallIdOf(before, last.email)
              /\ DOMAIN db.Ball = DOMAIN before.Ball
              /\ db.seq.Ball = before.seq.Ball

AddedPhrases(p) == UNION {p.added[key] : key \in DOMAIN p.added}

\* two PUTs for the same account have both answered 200, each reporting a
\* phrase the other did not
TwoPutsAdded ==
    /\ \A t \in Threads : IsPut(procs[t]) /\ procs[t].status = 200
    /\ \A t, u \in Threads : procs[t].email = procs[u].email
    /\ \A t \in Threads : AddedPhrases(procs[t]) # {}
    /\ \A t, u \in Threads : t # u => AddedPhrases(procs[t]) \cap AddedPhrases(procs[u]) = {}

\* C12 (as claimed): when two PUTs for the same account, each adding a
\* different new phrase, interleave between their store statements and both
\* answer 200 reporting their phrase as added, both phrases are in the stored
\* lists once both requests have completed.
C12_NoLostUpdate ==
    TwoPutsAdded
    => \A t \in Threads : \A key \in DOMAIN procs[t].added : \A ph \in procs[t].added[key] :
           /\ Contains(StoredList(db, procs[t].email, key), ph)
           /\ Contains(StoredList(committed, procs[t].email, key), ph)

====
